---- MODULE Spec2Model ----
(***************************************************************************)
(* CocosNet evaluation glue: the mask preprocessing of the demo            *)
(* (preprocessing.py) and the accuracy-checker evaluator with its          *)
(* two-stage model (cocosnet_evaluator.py).                                *)
(*                                                                         *)
(* Four specifications share the variables below; each one drives its own  *)
(* group of variables and leaves the other groups parked:                  *)
(*   SpecScatter  scatter / preprocess_with_semantics                      *)
(*   SpecBatch    CocosnetEvaluator._get_batch_input                       *)
(*   SpecPredict  CocosnetModel.predict                                    *)
(*   Spec         the CocosnetEvaluator object and its public methods      *)
(***************************************************************************)
EXTENDS Integers, Sequences, FiniteSets, TLC

VARIABLES
    \* ---- scatter / preprocess_with_semantics
    sMode,      \* "scatter": scatter(source) called directly; "preprocess": preprocess_with_semantics(source)
    sSource,    \* the label grid handed in (rows of labels)
    sGrid,      \* the grid scatter iterates over (source, or the resized source)
    sI, sJ,     \* loop counters i, j of scatter (0-based, as in the code)
    sOut,       \* the tensor `out`: the set of <<channel, row, col>> holding 1 (every other element is 0)
    sStatus     \* "start", "loop", "returned", "IndexError", or "off"

VARIABLES
    \* ---- CocosnetEvaluator._get_batch_input
    bChans,     \* what the reader holds: the number of data channels of each sample of the batch
    bInput,     \* batch_input, updated in place by the loop
    bI, bJ,     \* i and index_of_input (0-based, as in the code)
    bLog,       \* the calls of preprocessor.process made so far, in order
    bStatus     \* "start", "loop", "returned", or "off"

VARIABLES
    \* ---- CocosnetModel.predict
    pInputs,    \* the argument `inputs`
    pK,         \* position of the loop in inputs (1-based)
    pStage,     \* the statement the loop is at: "fit", "corr", "concat", "gen", "append"; "returned"; "off"
    pInp,       \* inp after fit_to_input
    pCorrOut,   \* corr_out
    pGenInput,  \* gen_input
    pResult,    \* result
    pResults,   \* results
    pLog        \* the stage invocations made so far, in order

VARIABLES
    \* ---- the CocosnetEvaluator object and its collaborators
    dsSize,           \* dataset.size
    dsBatch,          \* dataset.batch; 0 stands for None
    hasAdapter,       \* model.generator.adapter is truthy
    needStore,        \* metric_executor.need_store_predictions
    numMetrics,       \* the number of metrics the metric executor is configured with
    corrExec,         \* model.correspondence.exec_network: "loaded", or "absent" (attribute not set / deleted)
    genExec,          \* model.generator.exec_network, likewise
    launcherReleased, \* launcher.release() has been called
    annotations,      \* self._annotations
    predictions,      \* self._predictions
    metricsResults,   \* self._metrics_results
    metricState,      \* the running metrics: what update_metrics_on_batch has been given since the executor's reset
    storage,          \* the stored_predictions file: <<>> when not written, else <<the pickled list>>
    pc,               \* "idle", "running" (inside process_dataset's loop), "property" (inside the metrics_results getter)
    batchId,          \* batch_id of the batch the loop handles next
    toStore,          \* predictions_to_store
    runStored,        \* stored_predictions is given in the current process_dataset call
    lastCall,         \* the public method called last
    outcome,          \* "ok", "running", "error", "AttributeError", "RecursionError"
    failedStage,      \* the stage that raised in the last process_dataset call, or "none"
    failedBatch,      \* the batch_id it raised in, or -1
    returned,         \* what the last metrics call returned: <<>> for nothing, else <<kind, value>>
    propDepth,        \* the depth of nested metrics_results getter frames
    \* ---- history, for stating the claims
    runs,             \* process_dataset calls made so far
    runsSinceReset,   \* process_dataset calls started since the last reset (or construction)
    runProduced,      \* [batch, prediction] given to update_metrics_on_batch by the current process_dataset call
    storageAtStart    \* storage as it was when the current process_dataset call started

evalVars == <<dsSize, dsBatch, hasAdapter, needStore, numMetrics, corrExec, genExec,
              launcherReleased, annotations, predictions, metricsResults, metricState,
              storage, pc, batchId, toStore, runStored, lastCall, outcome, failedStage,
              failedBatch, returned, propDepth, runs, runsSinceReset,
              runProduced, storageAtStart>>

scatterVars == <<sMode, sSource, sGrid, sI, sJ, sOut, sStatus>>
batchVars == <<bChans, bInput, bI, bJ, bLog, bStatus>>
predictVars == <<pInputs, pK, pStage, pInp, pCorrOut, pGenInput, pResult, pResults, pLog>>

vars == <<scatterVars, batchVars, predictVars, evalVars>>

(***************************************************************************)
(* Bounds of the model and constants of the program.                       *)
(***************************************************************************)
\* the class axis of the one-hot tensor (preprocessing.py, line 21)
NumClasses == 151
\* the side of the resized grid and of the tensor; 256 in the source, scaled down
OutSize == 2
\* the largest label grid handed to scatter / preprocess_with_semantics
MaxRows == 1
MaxCols == 2
\* _get_batch_input: the largest batch and the most data channels of a sample
MaxBatchLen == 3
MaxChan == 3
\* predict: the longest list of inputs
MaxInputs == 3
\* the evaluator: dataset size, dataset.batch, configured metrics,
\* process_dataset calls, data channels per sample
MaxSize == 3
MaxBatch == 2
MaxMetrics == 1
MaxRuns == 2
SampleChannels == 2
\* the interpreter's recursion limit (1000 by default), scaled down
RecursionLimit == 2

OutOfRangeLow == 0 - NumClasses - 1
Labels == {OutOfRangeLow, -1, 0, NumClasses - 1, NumClasses}

Min(a, b) == IF a < b THEN a ELSE b

(***************************************************************************)
(* numpy / Python indexing of an axis of length n: idx in [-n, n) is       *)
(* accepted, a negative idx counts from the end; anything else raises      *)
(* IndexError.                                                             *)
(***************************************************************************)
IndexOk(idx, n) == (0 - n) <= idx /\ idx < n
Resolve(idx, n) == IF idx < 0 THEN idx + n ELSE idx

Grids == UNION { [1..h -> [1..w -> Labels]] : h \in 1..MaxRows, w \in 1..MaxCols }

Rows(g) == Len(g)
Cols(g) == Len(g[1])

\* cv2.resize(..., dsize=(OutSize, OutSize), interpolation=INTER_NEAREST):
\* destination (i, j) takes source (min(floor(i*h/OutSize), h-1), min(floor(j*w/OutSize), w-1)).
ResizeNearest(g) ==
    [i \in 1..OutSize |-> [j \in 1..OutSize |->
        g[Min(((i - 1) * Rows(g)) \div OutSize, Rows(g) - 1) + 1]
         [Min(((j - 1) * Cols(g)) \div OutSize, Cols(g) - 1) + 1]]]

\* out[0][source[i][j]][i][j] = 1 : the element written, when every index is accepted.
\* (ScatterCellBug: the same with row and column exchanged.)
ScatterCellBug(label, i, j) == <<Resolve(label, NumClasses), Resolve(j, OutSize), Resolve(i, OutSize)>>
ScatterCell(label, i, j) == <<Resolve(label, NumClasses), Resolve(i, OutSize), Resolve(j, OutSize)>>

ScatterCellOk(label, i, j) ==
    IndexOk(label, NumClasses) /\ IndexOk(i, OutSize) /\ IndexOk(j, OutSize)


(***************************************************************************)
(* A group of variables that a specification does not drive stays parked.  *)
(***************************************************************************)
ScatterOff ==
    /\ sMode = "off" /\ sSource = <<>> /\ sGrid = <<>>
    /\ sI = 0 /\ sJ = 0 /\ sOut = {} /\ sStatus = "off"

BatchOff ==
    /\ bChans = <<>> /\ bInput = <<>> /\ bI = 0 /\ bJ = 0 /\ bLog = <<>> /\ bStatus = "off"

EvalOff ==
    /\ dsSize = 0 /\ dsBatch = 0 /\ hasAdapter = FALSE /\ needStore = FALSE /\ numMetrics = 0
    /\ corrExec = "absent" /\ genExec = "absent" /\ launcherReleased = FALSE
    /\ annotations = <<>> /\ predictions = <<>> /\ metricsResults = <<>> /\ metricState = <<>>
    /\ storage = <<>> /\ pc = "off" /\ batchId = 0 /\ toStore = <<>> /\ runStored = FALSE
    /\ lastCall = "none" /\ outcome = "ok" /\ failedStage = "none" /\ failedBatch = -1
    /\ returned = <<>> /\ propDepth = 0
    /\ runs = 0 /\ runsSinceReset = 0 /\ runProduced = <<>>
    /\ storageAtStart = <<>>

PredictOff ==
    /\ pInputs = <<>> /\ pK = 0 /\ pStage = "off" /\ pInp = <<>> /\ pCorrOut = <<>>
    /\ pGenInput = <<>> /\ pResult = <<>> /\ pResults = <<>> /\ pLog = <<>>

(***************************************************************************)
(* CocosnetEvaluator._get_batch_input                                      *)
(***************************************************************************)
\* self.reader(identifier=identifier): a data representation whose data is a
\* list of nch raw arrays.
Reader(identifier, nch) ==
    [identifier |-> identifier,
     data |-> [c \in 1..nch |-> [kind |-> "raw", identifier |-> identifier, index |-> c - 1]]]

\* lines 112-114: preprocessor_mask, replaced by preprocessor_image when index_of_input % 2 is truthy
\* (PreprocessorForFlipped: the two preprocessors exchanged.)
PreprocessorForFlipped(index_of_input) ==
    IF index_of_input % 2 # 0 THEN "mask" ELSE "image"
PreprocessorFor(index_of_input) ==
    IF index_of_input % 2 # 0 THEN "image" ELSE "mask"

\* preprocessor.process(images=[DataRepresentation(x)], ...)[0].data
Process(preprocessor, x) == [kind |-> preprocessor, of |-> x]

\* lines 112-117: one iteration of the inner loop, on batch_input[i].data[index_of_input]
PreprocessOne(batch_input, i, j) ==
    LET sample == batch_input[i + 1]
        data == SubSeq(sample.data, 1, j)
                \o << Process(PreprocessorFor(j), sample.data[j + 1]) >>
                \o SubSeq(sample.data, j + 2, Len(sample.data))
    IN  SubSeq(batch_input, 1, i)
        \o << [identifier |-> sample.identifier, data |-> data] >>
        \o SubSeq(batch_input, i + 2, Len(batch_input))

\* lines 110-117 run to the end from position (i, j)
RECURSIVE PreprocessFrom(_, _, _)
PreprocessFrom(batch_input, i, j) ==
    IF i >= Len(batch_input) THEN batch_input
    ELSE IF j >= Len(batch_input[i + 1].data) THEN PreprocessFrom(batch_input, i + 1, 0)
    ELSE PreprocessFrom(PreprocessOne(batch_input, i, j), i, j + 1)

\* lines 106-120 as a function of what the reader returns: the first element of the returned triple
GetBatchInput(read) == << PreprocessFrom(read, 0, 0) >>

InitBatch ==
    /\ ScatterOff /\ PredictOff /\ EvalOff
    /\ bChans \in UNION { [1..n -> 0..MaxChan] : n \in 1..MaxBatchLen }
    /\ bInput = <<>>
    /\ bI = 0 /\ bJ = 0
    /\ bLog = <<>>
    /\ bStatus = "start"

\* lines 106-109: identifiers, the reader's calls, set_annotation_metadata
BatchRead ==
    /\ bStatus = "start"
    /\ bInput' = [k \in 1..Len(bChans) |-> Reader(k, bChans[k])]
    /\ bI' = 0 /\ bJ' = 0
    /\ bStatus' = "loop"
    /\ UNCHANGED <<bChans, bLog>>

\* lines 111-117: one pass of the inner loop
BatchPreprocess ==
    /\ bStatus = "loop"
    /\ bI < Len(bInput)
    /\ bJ < Len(bInput[bI + 1].data)
    /\ bInput' = PreprocessOne(bInput, bI, bJ)
    /\ bLog' = Append(bLog, [preprocessor |-> PreprocessorFor(bJ), sample |-> bI, index |-> bJ])
    /\ bJ' = bJ + 1
    /\ UNCHANGED <<bChans, bI, bStatus>>

\* line 110: the inner loop is exhausted, the outer loop moves on
BatchNextSample ==
    /\ bStatus = "loop"
    /\ bI < Len(bInput)
    /\ bJ = Len(bInput[bI + 1].data)
    /\ bI' = bI + 1 /\ bJ' = 0
    /\ UNCHANGED <<bChans, bInput, bLog, bStatus>>

\* lines 118-120
BatchReturn ==
    /\ bStatus = "loop"
    /\ bI = Len(bInput)
    /\ bStatus' = "returned"
    /\ UNCHANGED <<bChans, bInput, bI, bJ, bLog>>

NextBatch ==
    \/ BatchRead /\ UNCHANGED <<scatterVars, predictVars, evalVars>>
    \/ BatchPreprocess /\ UNCHANGED <<scatterVars, predictVars, evalVars>>
    \/ BatchNextSample /\ UNCHANGED <<scatterVars, predictVars, evalVars>>
    \/ BatchReturn /\ UNCHANGED <<scatterVars, predictVars, evalVars>>

SpecBatch == InitBatch /\ [][NextBatch]_vars

(***************************************************************************)
(* CocosnetModel.predict and the two stages it drives.  Tensors are opaque *)
(* terms that record how they were computed; `samples` is the batch axis.  *)
(***************************************************************************)
SamplesOf(batch_input) == [k \in 1..Len(batch_input) |-> batch_input[k].identifier]

\* CorrespondenceNetwork.fit_to_input (input_feeder.fill_inputs): a list of
\* named-tensor maps; the first declared input holds the input semantics
\* (data channel 0 of every sample), the others the reference inputs.
FitToInput(batch_input) ==
    << [input_semantics |-> [kind |-> "input", samples |-> SamplesOf(batch_input),
                             data |-> [k \in 1..Len(batch_input) |->
                                          IF Len(batch_input[k].data) >= 1
                                          THEN <<batch_input[k].data[1]>> ELSE <<>>]],
        reference |-> [kind |-> "input", samples |-> SamplesOf(batch_input),
                       data |-> [k \in 1..Len(batch_input) |->
                                    IF Len(batch_input[k].data) >= 1
                                    THEN Tail(batch_input[k].data) ELSE <<>>]]] >>

\* CorrespondenceNetwork.predict: exec_network.infer(input_data)
CorrPredict(feed) ==
    [warped_reference |-> [kind |-> "warped", samples |-> feed.input_semantics.samples, of |-> feed]]

\* np.concatenate((a, b), axis=1)
\* (ConcatenateSwapped: the operands in the other order.)
ConcatenateSwapped(a, b) == [kind |-> "concat", axis |-> 1, samples |-> a.samples, parts |-> <<b, a>>]
Concatenate(a, b) == [kind |-> "concat", axis |-> 1, samples |-> a.samples, parts |-> <<a, b>>]

\* lines 383-384
GenInput(corr_out, inp) == Concatenate(corr_out.warped_reference, inp[1].input_semantics)

\* GeneratorNetwork.predict: exec_network.infer(self.fit_to_input(input_data))
GenPredict(gen_input) ==
    [kind |-> "generated", samples |-> gen_input.samples, of |-> [input_blob |-> gen_input]]

\* lines 381-385 for one element of inputs
PredictOne(inp) == GenPredict(GenInput(CorrPredict(FitToInput(inp)[1]), FitToInput(inp)))

\* lines 378-387
Predict(inputs) == [k \in 1..Len(inputs) |-> PredictOne(inputs[k])]

\* the elements predict is tried on: filled batches of one and of two samples
InputChoices ==
    { GetBatchInput(<<Reader(1, 2)>>)[1], GetBatchInput(<<Reader(2, 3), Reader(3, 3)>>)[1] }

InitPredict ==
    /\ ScatterOff /\ BatchOff /\ EvalOff
    /\ pInputs \in UNION { [1..n -> InputChoices] : n \in 0..MaxInputs }
    /\ pK = 1
    /\ pStage = "fit"
    /\ pInp = <<>> /\ pCorrOut = <<>> /\ pGenInput = <<>> /\ pResult = <<>>
    /\ pResults = <<>>
    /\ pLog = <<>>

\* line 381
PredictFit ==
    /\ pStage = "fit"
    /\ pK <= Len(pInputs)
    /\ pInp' = FitToInput(pInputs[pK])
    /\ pStage' = "corr"
    /\ UNCHANGED <<pInputs, pK, pCorrOut, pGenInput, pResult, pResults, pLog>>

\* line 382
PredictCorr ==
    /\ pStage = "corr"
    /\ pCorrOut' = CorrPredict(pInp[1])
    /\ pLog' = Append(pLog, [stage |-> "correspondence", element |-> pK, arg |-> pInp[1]])
    /\ pStage' = "concat"
    /\ UNCHANGED <<pInputs, pK, pInp, pGenInput, pResult, pResults>>

\* lines 383-384
PredictConcat ==
    /\ pStage = "concat"
    /\ pGenInput' = GenInput(pCorrOut, pInp)
    /\ pLog' = Append(pLog, [stage |-> "concatenate", element |-> pK, arg |-> GenInput(pCorrOut, pInp).parts])
    /\ pStage' = "gen"
    /\ UNCHANGED <<pInputs, pK, pInp, pCorrOut, pResult, pResults>>

\* line 385
PredictGen ==
    /\ pStage = "gen"
    /\ pResult' = GenPredict(pGenInput)
    /\ pLog' = Append(pLog, [stage |-> "generator", element |-> pK, arg |-> pGenInput])
    /\ pStage' = "append"
    /\ UNCHANGED <<pInputs, pK, pInp, pCorrOut, pGenInput, pResults>>

\* line 386, and the loop moves to the next element
PredictAppend ==
    /\ pStage = "append"
    /\ pResults' = Append(pResults, pResult)
    /\ pLog' = Append(pLog, [stage |-> "append", element |-> pK, arg |-> pResult])
    /\ pK' = pK + 1
    /\ pStage' = "fit"
    /\ UNCHANGED <<pInputs, pInp, pCorrOut, pGenInput, pResult>>

\* line 387
PredictReturn ==
    /\ pStage = "fit"
    /\ pK > Len(pInputs)
    /\ pStage' = "returned"
    /\ UNCHANGED <<pInputs, pK, pInp, pCorrOut, pGenInput, pResult, pResults, pLog>>

NextPredict ==
    \/ PredictFit /\ UNCHANGED <<scatterVars, batchVars, evalVars>>
    \/ PredictCorr /\ UNCHANGED <<scatterVars, batchVars, evalVars>>
    \/ PredictConcat /\ UNCHANGED <<scatterVars, batchVars, evalVars>>
    \/ PredictGen /\ UNCHANGED <<scatterVars, batchVars, evalVars>>
    \/ PredictAppend /\ UNCHANGED <<scatterVars, batchVars, evalVars>>
    \/ PredictReturn /\ UNCHANGED <<scatterVars, batchVars, evalVars>>

SpecPredict == InitPredict /\ [][NextPredict]_vars

(***************************************************************************)
(* CocosnetEvaluator                                                       *)
(***************************************************************************)
\* Dataset iteration: batch b (0-based) holds the identifiers b*batch+1 ..,
\* the last batch may be short.
NumBatches == (dsSize + dsBatch - 1) \div dsBatch
BatchIds(b) == [k \in 1..Min(dsBatch, dsSize - b * dsBatch) |-> b * dsBatch + k]

\* generator.adapter.process(batch_predictions, batch_identifiers, batch_meta):
\* one prediction per identifier of the batch.
AdapterProcess(raw, identifiers) ==
    [k \in 1..Len(identifiers) |->
        [kind |-> "prediction", samples |-> <<identifiers[k]>>, of |-> raw[1].kind]]

\* postprocessor.process_batch(batch_annotation, batch_predictions, batch_meta)
PostprocessBatch(batch_annotation, batch_predictions) == <<batch_annotation, batch_predictions>>

\* lines 132-136: batch_predictions of a batch whose stages all succeed
BatchPredictions(ids) ==
    LET read == [k \in 1..Len(ids) |-> Reader(ids[k], SampleChannels)]
        raw == Predict(GetBatchInput(read))
    IN  IF hasAdapter THEN AdapterProcess(raw, ids) ELSE raw

\* The statements of the loop body, lines 132-150, in the order they run.
\* "buffer" is line 139, "metrics" line 141, "accumulate" lines 146-147.
\* (BatchStagesMetricsEarly: the metrics update moved before the postprocessor.)
BatchStagesMetricsEarly ==
    <<"reader", "preprocessor", "correspondence", "concatenate", "generator", "adapter",
      "buffer", "metrics", "postprocessor", "output_callback", "accumulate", "progress_reporter">>
BatchStages ==
    <<"reader", "preprocessor", "correspondence", "concatenate", "generator", "adapter",
      "buffer", "postprocessor", "metrics", "output_callback", "accumulate", "progress_reporter">>

StmtPos(name) == CHOOSE k \in 1..Len(BatchStages) : BatchStages[k] = name
Executed(name, upto) == StmtPos(name) < upto

\* The statements that call into a collaborator and so can raise.
RaisingStages ==
    {"reader", "preprocessor", "correspondence", "concatenate", "generator", "adapter",
     "postprocessor", "output_callback", "progress_reporter"}

\* Statement `stage` is reached: what runs before it succeeds.  The two
\* inference calls need their exec_network; the adapter runs only when set.
Reaches(upto) ==
    /\ StmtPos("correspondence") < upto => corrExec = "loaded"
    /\ StmtPos("generator") < upto => genExec = "loaded"

\* The loop body for batch batchId, run up to (not including) position upto.
BatchBody(upto) ==
    LET ids == BatchIds(batchId)
        post == PostprocessBatch(ids, BatchPredictions(ids))
        tagged == [k \in 1..Len(post[2]) |-> [batch |-> batchId, prediction |-> post[2][k]]]
    IN  /\ metricState' = IF Executed("metrics", upto) THEN metricState \o post[2] ELSE metricState
        /\ runProduced' = IF Executed("metrics", upto) THEN runProduced \o tagged ELSE runProduced
        /\ annotations' = IF needStore /\ Executed("accumulate", upto)
                          THEN annotations \o post[1] ELSE annotations
        /\ predictions' = IF needStore /\ Executed("accumulate", upto)
                          THEN predictions \o post[2] ELSE predictions

Config == <<dsSize, hasAdapter, needStore, numMetrics>>
Handles == <<corrExec, genExec, launcherReleased>>
History == <<runs, runsSinceReset>>

\* the frame of the last process_dataset call is gone once another method runs
NoRunFrame ==
    /\ batchId' = 0 /\ toStore' = <<>> /\ runStored' = FALSE /\ runProduced' = <<>>
    /\ storageAtStart' = <<>> /\ failedStage' = "none" /\ failedBatch' = -1

InitEval ==
    /\ ScatterOff /\ BatchOff /\ PredictOff
    /\ dsSize \in 1..MaxSize
    /\ dsBatch \in 0..MaxBatch
    /\ hasAdapter \in BOOLEAN
    /\ needStore \in BOOLEAN
    /\ numMetrics \in {0, MaxMetrics}
    \* CocosnetModel.__init__: the networks are loaded unless delayed_model_loading;
    \* loading the generator without an adapter raises (line 355), so a model
    \* whose generator.adapter is None (the case line 134 tests for) was built
    \* with delayed loading
    /\ \E delayed \in BOOLEAN :
          /\ hasAdapter \/ delayed
          /\ corrExec = (IF delayed THEN "absent" ELSE "loaded")
          /\ genExec = (IF delayed THEN "absent" ELSE "loaded")
    /\ launcherReleased = FALSE
    /\ annotations = <<>> /\ predictions = <<>> /\ metricsResults = <<>>
    /\ metricState = <<>>
    /\ storage = <<>>
    /\ pc = "idle" /\ batchId = 0 /\ toStore = <<>> /\ runStored = FALSE
    /\ lastCall = "none" /\ outcome = "ok" /\ failedStage = "none" /\ failedBatch = -1
    /\ returned = <<>> /\ propDepth = 0
    /\ runs = 0 /\ runsSinceReset = 0 /\ runProduced = <<>>
    /\ storageAtStart = <<>>

\* The caller of a model built with delayed loading loads the stages, if at
\* all, before it uses the evaluator.
BeforeUse == lastCall \in {"none", "load_correspondence", "load_generator"}

\* CorrespondenceNetwork.load_model, lines 289-301
LoadCorrespondence ==
    /\ pc = "idle" /\ BeforeUse
    /\ corrExec' = "loaded"
    /\ lastCall' = "load_correspondence" /\ outcome' = "ok"
    /\ returned' = <<>>
    /\ NoRunFrame
    /\ UNCHANGED <<Config, dsBatch, genExec, launcherReleased, annotations, predictions,
                   metricsResults, metricState, storage, pc, propDepth, History>>

\* GeneratorNetwork.load_model, lines 339-348: exec_network is set, then
\* set_input_and_output assigns adapter.output_blob (line 355)
LoadGenerator ==
    /\ pc = "idle" /\ BeforeUse
    /\ genExec' = "loaded"
    /\ lastCall' = "load_generator"
    /\ outcome' = (IF hasAdapter THEN "ok" ELSE "AttributeError")
    /\ returned' = <<>>
    /\ NoRunFrame
    /\ UNCHANGED <<Config, dsBatch, corrExec, launcherReleased, annotations, predictions,
                   metricsResults, metricState, storage, pc, propDepth, History>>

\* process_dataset, lines 123-131: up to the first pass of the loop
StartProcess(stored) ==
    /\ pc = "idle"
    /\ runs < MaxRuns
    /\ dsBatch' = (IF dsBatch = 0 THEN 1 ELSE dsBatch)
    /\ toStore' = <<>>
    /\ batchId' = 0
    /\ runStored' = stored
    /\ runProduced' = <<>>
    /\ storageAtStart' = storage
    /\ pc' = "running"
    /\ lastCall' = "process_dataset" /\ outcome' = "running"
    /\ failedStage' = "none" /\ failedBatch' = -1
    /\ returned' = <<>>
    /\ runs' = runs + 1 /\ runsSinceReset' = runsSinceReset + 1
    /\ UNCHANGED <<Config, Handles, annotations, predictions, metricsResults, metricState,
                   storage, propDepth>>

\* lines 132-150: one pass of the loop in which nothing raises
\* (ProcessBatchFlushing: the same, writing the buffer to storage after every batch.)
ProcessBatchFlushing ==
    /\ pc = "running"
    /\ batchId < NumBatches
    /\ Reaches(Len(BatchStages) + 1)
    /\ BatchBody(Len(BatchStages) + 1)
    /\ toStore' = (IF runStored THEN toStore \o BatchPredictions(BatchIds(batchId)) ELSE toStore)
    /\ storage' = (IF runStored THEN <<toStore'>> ELSE storage)
    /\ batchId' = batchId + 1
    /\ UNCHANGED <<Config, dsBatch, Handles, metricsResults, pc, runStored, lastCall,
                   outcome, failedStage, failedBatch, returned, propDepth, History,
                   storageAtStart>>
ProcessBatch ==
    /\ pc = "running"
    /\ batchId < NumBatches
    /\ Reaches(Len(BatchStages) + 1)
    /\ BatchBody(Len(BatchStages) + 1)
    /\ toStore' = (IF runStored THEN toStore \o BatchPredictions(BatchIds(batchId)) ELSE toStore)
    /\ batchId' = batchId + 1
    /\ UNCHANGED <<Config, dsBatch, Handles, metricsResults, storage, pc, runStored, lastCall,
                   outcome, failedStage, failedBatch, returned, propDepth, History,
                   storageAtStart>>

\* lines 132-150: a pass of the loop in which `stage` raises; nothing catches
\* the exception, so it leaves process_dataset and the frame is dropped
BatchFails(stage) ==
    /\ pc = "running"
    /\ batchId < NumBatches
    /\ stage = "adapter" => hasAdapter
    /\ Reaches(StmtPos(stage))
    /\ BatchBody(StmtPos(stage))
    /\ toStore' = <<>>
    /\ pc' = "idle"
    /\ outcome' = "error" /\ failedStage' = stage /\ failedBatch' = batchId
    /\ UNCHANGED <<Config, dsBatch, Handles, metricsResults, storage, batchId, runStored,
                   lastCall, returned, propDepth, History, storageAtStart>>

\* lines 152-157 and store_predictions, lines 205-210
FinishProcess ==
    /\ pc = "running"
    /\ batchId = NumBatches
    /\ storage' = (IF runStored THEN <<toStore>> ELSE storage)
    /\ pc' = "idle"
    /\ outcome' = "ok"
    /\ UNCHANGED <<Config, dsBatch, Handles, annotations, predictions, metricsResults,
                   metricState, batchId, toStore, runStored, lastCall, failedStage,
                   failedBatch, returned, propDepth, History, runProduced,
                   storageAtStart>>

\* metric_executor.iterate_metrics(self._annotations, self._predictions):
\* one evaluated metric per configured metric
ComputedResults ==
    [m \in 1..numMetrics |->
        [metric |-> m, over |-> Len(metricState)]]

\* compute_metrics, lines 159-169 (write_result only writes to the presenter's output)
ComputeMetrics ==
    /\ pc = "idle"
    /\ metricsResults' = ComputedResults
    /\ returned' = <<"list", ComputedResults>>
    /\ lastCall' = "compute_metrics" /\ outcome' = "ok"
    /\ NoRunFrame
    /\ UNCHANGED <<Config, dsBatch, Handles, annotations, predictions, metricState, storage,
                   pc, propDepth, History>>

\* extract_metrics_results, lines 171-188
ExtractMetricsResults ==
    /\ pc = "idle"
    /\ LET results == IF metricsResults = <<>> THEN ComputedResults ELSE metricsResults
       IN  /\ metricsResults' = results
           /\ returned' = <<"extracted", [k \in 1..Min(numMetrics, Len(results)) |-> results[k].over]>>
    /\ lastCall' = "extract_metrics_results" /\ outcome' = "ok"
    /\ NoRunFrame
    /\ UNCHANGED <<Config, dsBatch, Handles, annotations, predictions, metricState, storage,
                   pc, propDepth, History>>

\* print_metrics_results, lines 190-196
PrintMetricsResults ==
    /\ pc = "idle"
    /\ metricsResults' = (IF metricsResults = <<>> THEN ComputedResults ELSE metricsResults)
    /\ returned' = <<>>
    /\ lastCall' = "print_metrics_results" /\ outcome' = "ok"
    /\ NoRunFrame
    /\ UNCHANGED <<Config, dsBatch, Handles, annotations, predictions, metricState, storage,
                   pc, propDepth, History>>

\* the metrics_results getter, line 200: evaluating `self.metrics_results`
\* enters the getter again before anything else is done
PropertyEnter ==
    /\ pc = "idle"
    /\ pc' = "property"
    /\ propDepth' = 1
    /\ lastCall' = "metrics_results" /\ outcome' = "running"
    /\ returned' = <<>>
    /\ NoRunFrame
    /\ UNCHANGED <<Config, dsBatch, Handles, annotations, predictions, metricsResults,
                   metricState, storage, History>>

PropertyRecurse ==
    /\ pc = "property"
    /\ propDepth < RecursionLimit
    /\ propDepth' = propDepth + 1
    /\ UNCHANGED <<Config, dsBatch, Handles, annotations, predictions, metricsResults,
                   metricState, storage, pc, batchId, toStore, runStored, lastCall, outcome,
                   failedStage, failedBatch, returned, History, runProduced,
                   storageAtStart>>

\* the interpreter's recursion limit is hit: RecursionError leaves every frame
PropertyOverflow ==
    /\ pc = "property"
    /\ propDepth = RecursionLimit
    /\ propDepth' = 0
    /\ pc' = "idle"
    /\ outcome' = "RecursionError"
    /\ UNCHANGED <<Config, dsBatch, Handles, annotations, predictions, metricsResults,
                   metricState, storage, batchId, toStore, runStored, lastCall,
                   failedStage, failedBatch, returned, History, runProduced,
                   storageAtStart>>

\* reset, lines 215-224
\* (ResetKeepsPredictions: the same without the rebinding of _predictions.)
ResetKeepsPredictions ==
    /\ pc = "idle"
    /\ metricState' = <<>>
    /\ annotations' = <<>> /\ predictions' = predictions /\ metricsResults' = <<>>
    /\ lastCall' = "reset" /\ outcome' = "ok"
    /\ returned' = <<>>
    /\ runsSinceReset' = 0
    /\ NoRunFrame
    /\ UNCHANGED <<Config, dsBatch, Handles, storage, pc, propDepth, runs>>
Reset ==
    /\ pc = "idle"
    /\ metricState' = <<>>
    /\ annotations' = <<>> /\ predictions' = <<>> /\ metricsResults' = <<>>
    /\ lastCall' = "reset" /\ outcome' = "ok"
    /\ returned' = <<>>
    /\ runsSinceReset' = 0
    /\ NoRunFrame
    /\ UNCHANGED <<Config, dsBatch, Handles, storage, pc, propDepth, runs>>

\* release, lines 226-228, with CocosnetModel.release (374-376) and the two
\* stages' release (321-322, 360-361): `del self.exec_network` raises
\* AttributeError when the attribute is not there
Release ==
    /\ pc = "idle"
    /\ launcherReleased' = TRUE
    /\ IF corrExec = "absent"
       THEN /\ outcome' = "AttributeError"
            /\ UNCHANGED <<corrExec, genExec>>
       ELSE /\ corrExec' = "absent"
            /\ IF genExec = "absent"
               THEN outcome' = "AttributeError" /\ genExec' = genExec
               ELSE outcome' = "ok" /\ genExec' = "absent"
    /\ lastCall' = "release"
    /\ returned' = <<>>
    /\ NoRunFrame
    /\ UNCHANGED <<Config, dsBatch, annotations, predictions, metricsResults, metricState,
                   storage, pc, propDepth, History>>

Others == <<scatterVars, batchVars, predictVars>>

Next ==
    \/ LoadCorrespondence /\ UNCHANGED Others
    \/ LoadGenerator /\ UNCHANGED Others
    \/ (\E stored \in BOOLEAN : StartProcess(stored)) /\ UNCHANGED Others
    \/ ProcessBatch /\ UNCHANGED Others
    \/ (\E stage \in RaisingStages : BatchFails(stage)) /\ UNCHANGED Others
    \/ FinishProcess /\ UNCHANGED Others
    \/ ComputeMetrics /\ UNCHANGED Others
    \/ ExtractMetricsResults /\ UNCHANGED Others
    \/ PrintMetricsResults /\ UNCHANGED Others
    \/ PropertyEnter /\ UNCHANGED Others
    \/ PropertyRecurse /\ UNCHANGED Others
    \/ PropertyOverflow /\ UNCHANGED Others
    \/ Reset /\ UNCHANGED Others
    \/ Release /\ UNCHANGED Others

Spec == InitEval /\ [][Next]_vars

(***************************************************************************)
(* scatter and preprocess_with_semantics                                   *)
(***************************************************************************)
InitScatter ==
    /\ BatchOff /\ PredictOff /\ EvalOff
    /\ sMode \in {"scatter", "preprocess"}
    /\ sSource \in Grids
    /\ sGrid = <<>>
    /\ sI = 0 /\ sJ = 0
    /\ sOut = {}
    /\ sStatus = "start"

\* preprocess_with_semantics, line 30: the grid is resized before scatter is entered.
\* scatter, lines 21-22: out = zeros, h, w = source.shape.
ScatterEnter ==
    /\ sStatus = "start"
    /\ sGrid' = IF sMode = "preprocess" THEN ResizeNearest(sSource) ELSE sSource
    /\ sI' = 0 /\ sJ' = 0
    /\ sOut' = {}
    /\ sStatus' = "loop"
    /\ UNCHANGED <<sMode, sSource>>

\* One iteration of the inner loop, lines 23-25.
ScatterStep ==
    /\ sStatus = "loop"
    /\ sI < Rows(sGrid)
    /\ LET label == sGrid[sI + 1][sJ + 1] IN
       IF ScatterCellOk(label, sI, sJ)
       THEN /\ sOut' = sOut \cup {ScatterCell(label, sI, sJ)}
            /\ IF sJ + 1 < Cols(sGrid)
               THEN sJ' = sJ + 1 /\ sI' = sI
               ELSE sJ' = 0 /\ sI' = sI + 1
            /\ sStatus' = "loop"
       ELSE \* IndexError leaves scatter; the local `out` is dropped
            /\ sOut' = {}
            /\ sStatus' = "IndexError"
            /\ UNCHANGED <<sI, sJ>>
    /\ UNCHANGED <<sMode, sSource, sGrid>>

\* line 26 (and .astype(np.int) of line 32, which keeps 0 and 1 as they are)
ScatterReturn ==
    /\ sStatus = "loop"
    /\ sI = Rows(sGrid)
    /\ sStatus' = "returned"
    /\ UNCHANGED <<sMode, sSource, sGrid, sI, sJ, sOut>>

NextScatter ==
    \/ ScatterEnter /\ UNCHANGED <<batchVars, predictVars, evalVars>>
    \/ ScatterStep /\ UNCHANGED <<batchVars, predictVars, evalVars>>
    \/ ScatterReturn /\ UNCHANGED <<batchVars, predictVars, evalVars>>

SpecScatter == InitScatter /\ [][NextScatter]_vars

(***************************************************************************)
(* Claims about CocosnetEvaluator (Spec)                                   *)
(***************************************************************************)
PredictionsOf(tagged) == [k \in 1..Len(tagged) |-> tagged[k].prediction]

\* C1: reset() leaves the accumulated annotations, predictions and metrics
\* results empty and does not touch the collaborators (the launcher, the
\* model's execution handles, the dataset and metric configuration), and the
\* process_dataset run that follows accumulates the results of that run only.
C1_ResetStartsFresh ==
    /\ [](lastCall = "reset" =>
             /\ outcome = "ok"
             /\ annotations = <<>> /\ predictions = <<>> /\ metricsResults = <<>>)
    /\ [][lastCall' = "reset" => UNCHANGED <<Config, dsBatch, Handles>>]_vars
    /\ []((lastCall = "process_dataset" /\ runsSinceReset = 1 /\ outcome \in {"running", "ok"}) =>
             /\ predictions = (IF needStore THEN PredictionsOf(runProduced) ELSE <<>>)
             /\ annotations = (IF needStore
                               THEN [i \in 1..Min(batchId * dsBatch, dsSize) |-> i]
                               ELSE <<>>))

\* a second run, finished after a reset that followed a first run
C1_Witness ==
    /\ lastCall = "process_dataset" /\ outcome = "ok" /\ pc = "idle"
    /\ runs = 2 /\ runsSinceReset = 1
    /\ needStore /\ dsSize >= 2
    /\ Len(predictions) = dsSize

ListedStages ==
    {"reader", "preprocessor", "correspondence", "concatenate", "generator", "adapter",
     "postprocessor"}

\* C5: when one of the listed stages raises while batch k is handled, the
\* error leaves process_dataset at once (no retry, no later batch), and the
\* running metrics and the accumulated annotations and predictions are what
\* they were before batch k: nothing of batch k, everything of the batches
\* before it.
C5_FailedBatchLeavesNoTrace ==
    /\ [][(pc = "running" /\ outcome' = "error" /\ failedStage' \in ListedStages) =>
             /\ pc' = "idle"
             /\ failedBatch' = batchId /\ batchId' = batchId
             /\ metricState' = metricState
             /\ annotations' = annotations
             /\ predictions' = predictions]_vars
    /\ []((lastCall = "process_dataset" /\ outcome = "error" /\ failedStage \in ListedStages) =>
             /\ pc = "idle"
             /\ \A i \in 1..Len(runProduced) : runProduced[i].batch < failedBatch
             /\ \A b \in 0..(failedBatch - 1) : \E i \in 1..Len(runProduced) : runProduced[i].batch = b)

C5_Witness ==
    /\ lastCall = "process_dataset" /\ outcome = "error"
    /\ failedStage = "postprocessor" /\ failedBatch = 1
    /\ needStore /\ dsBatch = 2
    /\ Len(metricState) = 2 /\ Len(predictions) = 2

CompletedBefore(k) ==
    PredictionsOf(SelectSeq(runProduced, LAMBDA r : r.batch < k))

\* C6 as claimed: when a run with a stored_predictions target is ended by an
\* error in batch k, the predictions of the batches completed before k have
\* been flushed to storage.
C6_CompletedBatchesFlushed ==
    (lastCall = "process_dataset" /\ outcome = "error" /\ runStored /\ failedBatch >= 1) =>
        storage = <<CompletedBefore(failedBatch)>>

\* C6 amended: a run with a stored_predictions target writes the storage once,
\* after its last batch; while it runs, and when an error ends it, the storage
\* is as it was when the run started, so no prediction of the aborted run is
\* in storage.
C6_NothingFlushedBeforeTheEnd ==
    (lastCall = "process_dataset" /\ runStored) =>
        /\ outcome \in {"running", "error"} => storage = storageAtStart
        /\ (outcome = "ok" /\ pc = "idle") => storage = <<PredictionsOf(runProduced)>>

C6_Witness ==
    /\ lastCall = "process_dataset" /\ outcome = "error" /\ runStored
    /\ failedBatch >= 1
    /\ runProduced # <<>>
    /\ storage = <<>>

\* C7: after release(), in whatever state it is called, the launcher and both
\* stages' execution handles are released and the call has raised nothing.
C7_ReleaseAlwaysSucceeds ==
    lastCall = "release" =>
        /\ outcome = "ok"
        /\ launcherReleased /\ corrExec = "absent" /\ genExec = "absent"

\* C10: reading metrics_results terminates in every state and returns a copy
\* of the stored metrics results.
C10_PropertyReturnsCopy ==
    (lastCall = "metrics_results" /\ pc = "idle") =>
        /\ outcome = "ok"
        /\ returned = <<"copy", metricsResults>>

(***************************************************************************)
(* Claims about scatter / preprocess_with_semantics (SpecScatter)          *)
(***************************************************************************)
ValidLabel(l) == 0 <= l /\ l < NumClasses
AllValid(g) == \A i \in 1..Rows(g) : \A j \in 1..Cols(g) : ValidLabel(g[i][j])
ChannelsSet(i, j) == { c \in 0..(NumClasses - 1) : <<c, i, j>> \in sOut }

\* C3: for a label grid with every value in [0, 151), preprocess_with_semantics
\* (resize, then scatter) returns a tensor that has, at every spatial position,
\* exactly one class channel equal to 1, and that channel is the label of the
\* resized grid at the position.
C3_OneHotOfResized ==
    (sMode = "preprocess" /\ AllValid(sSource)) =>
        /\ sStatus # "IndexError"
        /\ sStatus = "returned" =>
              /\ sGrid = ResizeNearest(sSource)
              /\ \A i \in 0..(OutSize - 1) : \A j \in 0..(OutSize - 1) :
                    ChannelsSet(i, j) = { sGrid[i + 1][j + 1] }

C3_Witness ==
    /\ sMode = "preprocess" /\ sStatus = "returned"
    /\ sSource = << <<0, NumClasses - 1>> >>
    /\ <<0, 0, 0>> \in sOut
    /\ <<NumClasses - 1, OutSize - 1, OutSize - 1>> \in sOut

\* C9: when the grid given to scatter holds a value outside [0, 151), scatter
\* fails with an index error and returns no tensor.
C9_OutOfRangeRaises ==
    (sStatus \in {"loop", "returned", "IndexError"} /\ ~AllValid(sGrid)) => sStatus # "returned"

(***************************************************************************)
(* Claim about _get_batch_input (SpecBatch)                                *)
(***************************************************************************)
CallsOn(k, c) == { m \in 1..Len(bLog) : bLog[m].sample = k - 1 /\ bLog[m].index = c - 1 }

StageOrder == <<"correspondence", "concatenate", "generator", "append">>

\* C4: predict handles its inputs one after another: for each element one
\* Correspondence Stage call, then the concatenation (warped reference first,
\* input semantics second, axis 1), then one Generator Stage call on that
\* concatenation, then the append; element i+1 starts after the append of
\* element i, and the returned list has one entry per element, in order.
C4_PredictSequential ==
    /\ \A m \in 1..Len(pLog) :
          /\ pLog[m].stage = StageOrder[((m - 1) % 4) + 1]
          /\ pLog[m].element = ((m - 1) \div 4) + 1
          /\ pLog[m].stage = "correspondence" =>
                pLog[m].arg.input_semantics.samples = SamplesOf(pInputs[pLog[m].element])
          /\ pLog[m].stage = "concatenate" =>
                /\ pLog[m].arg[1] = [kind |-> "warped",
                                     samples |-> pLog[m - 1].arg.input_semantics.samples,
                                     of |-> pLog[m - 1].arg]
                /\ pLog[m].arg[2] = pLog[m - 1].arg.input_semantics
          /\ pLog[m].stage = "generator" =>
                /\ pLog[m].arg.kind = "concat" /\ pLog[m].arg.axis = 1
                /\ pLog[m].arg.parts = pLog[m - 1].arg
          /\ pLog[m].stage = "append" =>
                /\ pLog[m].arg.kind = "generated"
                /\ pLog[m].arg.of.input_blob = pLog[m - 1].arg
                /\ pResults[pLog[m].element] = pLog[m].arg
    /\ Len(pResults) = Len(pLog) \div 4
    /\ pStage = "returned" =>
          /\ Len(pResults) = Len(pInputs)
          /\ \A k \in 1..Len(pInputs) : pResults[k].samples = SamplesOf(pInputs[k])

C4_Witness ==
    /\ pStage = "returned"
    /\ Len(pInputs) >= 2
    /\ pInputs[1] # pInputs[2]
    /\ Len(pResults) = Len(pInputs)

====
